---- MODULE Spec2Model ----
(***************************************************************************)
(* Model of the landing page component Root (src/src/Root.tsx): the star   *)
(* count formatter, the debounce helper, the theme toggle, the star count  *)
(* fetch, the mobile menu with its outside-click listener, the scroll      *)
(* tracker and the video overlay.                                          *)
(*                                                                         *)
(* Strings are sequences of one-character strings.  A JavaScript number is *)
(* a record [type |-> "number", num, den] standing for num/den with den in *)
(* {1, 2}; null, undefined and a string value share the record shape.      *)
(***************************************************************************)
EXTENDS Integers, Sequences, FiniteSets, TLC

\* ------------------------------------------------------------------ bounds
\* Largest star count given to formatStarCount by SpecFormat.
MaxCount == 16000
\* Largest advance of the clock in one Tick, in milliseconds.
TimeStep == 25
\* Height of the page content in pixels; the viewport heights are around it.
ContentHeight == 40
\* Cap of the request counter.
MaxRequests == 3
\* Cap of the count of events in a burst.
MaxBurst == 3

\* ------------------------------------------------------- program constants
KiloThreshold     == 1000   \* count >= 1000
RoundUnit         == 100    \* Math.round(count / 100) * 100
InitDelay         == 100    \* setTimeout(..., 100)
ScrollDelay       == 50     \* debounce(checkScroll, 50)
ResizeDelay       == 100    \* debounce(checkScroll, 100)
OverflowThreshold == 10     \* scrollHeight > clientHeight + 10
OffsetThreshold   == 5      \* scrollTop > 5

\* ------------------------------------------------------------------ values
JsNull      == [type |-> "null",      num |-> 0, den |-> 1]
JsUndefined == [type |-> "undefined", num |-> 0, den |-> 1]
JsString    == [type |-> "string",    num |-> 0, den |-> 1]
JsNum(n, d) == [type |-> "number",    num |-> n, den |-> d]

Min(a, b) == IF a <= b THEN a ELSE b
Max(a, b) == IF a >= b THEN a ELSE b
Abs(a)    == IF a < 0 THEN -a ELSE a

DigitChars == <<"0", "1", "2", "3", "4", "5", "6", "7", "8", "9">>

\* Number.prototype.toString of a non-negative integer.
RECURSIVE NatToString(_)
NatToString(n) ==
  IF n < 10 THEN <<DigitChars[n + 1]>>
  ELSE NatToString(n \div 10) \o <<DigitChars[(n % 10) + 1]>>

\* Number.prototype.toString of num/den, den in {1, 2}: sign, integer
\* part, and ".5" for an odd number of halves.
NumToString(v) ==
  LET sign == IF v.num < 0 THEN <<"-">> ELSE <<>>
      mag  == Abs(v.num)
  IN  IF v.den = 1
        THEN sign \o NatToString(mag)
        ELSE sign \o NatToString(mag \div 2) \o <<".", "5">>

\* Math.round of num/den: the nearest integer, halves rounded up.
MathRound(num, den) == (2 * num + den) \div (2 * den)

\* Number.prototype.toFixed(1) of num/den >= 0: the integer n for which
\* n/10 is nearest (the larger n of two), written with one decimal.
ToFixed1(num, den) ==
  LET n == (20 * num + den) \div (2 * den)
  IN  NatToString(n \div 10) \o <<".">> \o <<DigitChars[(n % 10) + 1]>>

\* String.prototype.replace(/\.0$/, ''): drop a trailing ".0".
StripDotZero(s) ==
  IF Len(s) >= 2 /\ s[Len(s) - 1] = "." /\ s[Len(s)] = "0"
    THEN SubSeq(s, 1, Len(s) - 2)
    ELSE s

\* ---------------------------------------------------------- formatStarCount
\* The formatter with Math.floor in place of Math.round.
formatStarCount_floor(count) ==
  IF count.type = "null" THEN <<"0">>
  ELSE IF count.num >= KiloThreshold * count.den
    THEN LET roundedCount == (count.num \div (RoundUnit * count.den)) * RoundUnit
         IN  StripDotZero(ToFixed1(roundedCount, 1000)) \o <<"k">>
    ELSE NumToString(count)

\* The formatter with the threshold test count > 1000 and the rounding
\* applied below it too.
formatStarCount_early(count) ==
  IF count.type = "null" THEN <<"0">>
  ELSE IF count.num >= RoundUnit * count.den
    THEN LET roundedCount == MathRound(count.num, RoundUnit * count.den) * RoundUnit
         IN  StripDotZero(ToFixed1(roundedCount, 1000)) \o <<"k">>
    ELSE NumToString(count)

formatStarCount(count) ==
  IF count.type = "null" THEN <<"0">>
  ELSE IF count.num >= KiloThreshold * count.den
    THEN LET roundedCount == MathRound(count.num, RoundUnit * count.den) * RoundUnit
         IN  StripDotZero(ToFixed1(roundedCount, 1000)) \o <<"k">>
    ELSE NumToString(count)

\* ------------------------------------------------------------------- state
VARIABLES
  lifecycle,      \* "rendered" (first render done), "mounted", "unmounted"
  theme,          \* localStorage item 'theme'; Absent when getItem gives null
  isDarkMode,     \* useState: the in-memory theme preference
  darkClass,      \* document.documentElement.classList contains 'dark'
  rootBg,         \* document.documentElement.style.backgroundColor
  bodyBg,         \* document.body.style.backgroundColor
  isMenuOpen,     \* useState
  showVideo,      \* useState
  lumeStars,      \* useState: JsNull or the stored stargazers_count
  isScrolled,     \* useState
  isInitialized,  \* useState
  fetchPc,        \* fetchStars: "idle", "awaitFetch", "awaitJson", "done"
  consoleErr,     \* the console.error message of fetchStars, "none" before
  requests,       \* number of GET requests issued
  unhandled,      \* the promise of fetchStars was rejected
  scrollTop,      \* document.documentElement.scrollTop
  scrollHeight,   \* document.documentElement.scrollHeight
  clientHeight,   \* document.documentElement.clientHeight
  timers,         \* pending setTimeout timers: [owner, due, cur]
  now,            \* history: ms since mount, saturating at InitDelay
  sinceLast,      \* history: ms since the last event a wrapper received
  owed,           \* history: a wrapper received an event not yet followed by its call
  burst,          \* history: events a wrapper received since it was last idle, capped
  lastEvent,      \* history: the step taken last
  toggleTrail,    \* history: (isDarkMode, theme) before the last two toggles
  fmtIn,          \* argument of formatStarCount
  fmtOut          \* its result, <<>> before the call

themeVars  == <<theme, isDarkMode, darkClass, rootBg, bodyBg, toggleTrail>>
uiVars     == <<isMenuOpen, showVideo>>
fetchVars  == <<lumeStars, fetchPc, consoleErr, requests, unhandled>>
pageVars   == <<scrollTop, scrollHeight, clientHeight>>
scrollVars == <<isScrolled, isInitialized, timers, now, sinceLast, owed, burst>>
fmtVars    == <<fmtIn, fmtOut>>
vars == <<lifecycle, themeVars, uiVars, fetchVars, pageVars, scrollVars,
          lastEvent, fmtVars>>

Absent       == "(absent)"
StoredThemes == {Absent, "dark", "light", "system"}
DarkColour   == "#171717"
LightColour  == "white"

Sources == {"scroll", "resize"}
Delay(o) == IF o = "scroll" THEN ScrollDelay ELSE ResizeDelay

Ev(kind, target, delivered, menuWasOpen, videoWasVisible) ==
  [kind |-> kind, target |-> target, delivered |-> delivered,
   menuWasOpen |-> menuWasOpen, videoWasVisible |-> videoWasVisible]
Step(kind) == Ev(kind, "none", FALSE, isMenuOpen, showVideo)

\* --------------------------------------------------------------- the theme
\* The initialiser that takes every stored value but "light" for dark.
InitialIsDarkMode_notLight(savedTheme) == savedTheme # "light"

\* useState initialiser of isDarkMode.
InitialIsDarkMode(savedTheme) == savedTheme = "dark"

\* toggleTheme that persists the preference it replaces.
toggleTheme_stale(ui) ==
  LET newTheme == ~ui.isDarkMode
  IN  [ui EXCEPT !.theme = IF ui.isDarkMode THEN "dark" ELSE "light",
                 !.darkClass = ~ui.darkClass,
                 !.isDarkMode = newTheme]

\* toggleTheme that also closes the menu.
toggleTheme_closesMenu(ui) ==
  LET newTheme == ~ui.isDarkMode
  IN  [ui EXCEPT !.theme = IF newTheme THEN "dark" ELSE "light",
                 !.darkClass = ~ui.darkClass,
                 !.isDarkMode = newTheme,
                 !.isMenuOpen = FALSE]

\* The updater passed to setIsDarkMode by toggleTheme, with its side effects.
toggleTheme(ui) ==
  LET newTheme == ~ui.isDarkMode
  IN  [ui EXCEPT !.theme = IF newTheme THEN "dark" ELSE "light",
                 !.darkClass = ~ui.darkClass,
                 !.isDarkMode = newTheme]

\* The effect with classList.add in both branches.
ThemeEffect_alwaysAdd(dark) ==
  [darkClass |-> TRUE,
   rootBg |-> IF dark THEN DarkColour ELSE LightColour,
   bodyBg |-> IF dark THEN DarkColour ELSE LightColour]

\* The effect with dependency [isDarkMode]: the class and the two colours.
ThemeEffect(dark) ==
  [darkClass |-> dark,
   rootBg |-> IF dark THEN DarkColour ELSE LightColour,
   bodyBg |-> IF dark THEN DarkColour ELSE LightColour]

\* ------------------------------------------------------------ the elements
Elements == {"menuButton", "themeSwitch", "menuPanel", "menuThemeButton",
             "watchDemo", "videoBackdrop", "videoContent", "videoClose", "page"}

\* The parent in the rendered tree; "document" above the page.
Parent(el) ==
  CASE el = "menuThemeButton" -> "menuPanel"
    [] el = "videoClose"      -> "videoContent"
    [] el = "videoContent"    -> "videoBackdrop"
    [] el = "page"            -> "document"
    [] OTHER                  -> "page"

\* {isMenuOpen && ...} and {showVideo && ...}.
Rendered(el, menuOpen, video) ==
  CASE el \in {"menuPanel", "menuThemeButton"}                -> menuOpen
    [] el \in {"videoBackdrop", "videoContent", "videoClose"} -> video
    [] OTHER                                                  -> TRUE

\* The elements carrying data-menu-container.
MenuContainer(el) == el \in {"menuButton", "menuPanel"}

\* target.closest('[data-menu-container]') finds an element.
RECURSIVE Closest(_)
Closest(el) ==
  IF el = "document" THEN FALSE
  ELSE IF MenuContainer(el) THEN TRUE
  ELSE Closest(Parent(el))

\* The onClick of the inner content area without stopPropagation.
OnClick_bubbling(el, ui) ==
  CASE el = "menuButton"      -> [ui EXCEPT !.stopped = TRUE,
                                            !.isMenuOpen = ~ui.renderedMenuOpen]
    [] el = "themeSwitch"     -> toggleTheme(ui)
    [] el = "menuThemeButton" -> toggleTheme(ui)
    [] el = "watchDemo"       -> [ui EXCEPT !.showVideo = TRUE]
    [] el = "videoBackdrop"   -> [ui EXCEPT !.showVideo = FALSE]
    [] el = "videoClose"      -> [ui EXCEPT !.showVideo = FALSE]
    [] OTHER                  -> ui

\* The onClick handler of an element, applied to the pending state.
OnClick(el, ui) ==
  CASE el = "menuButton"      -> [ui EXCEPT !.stopped = TRUE,
                                            !.isMenuOpen = ~ui.renderedMenuOpen]
    [] el = "themeSwitch"     -> toggleTheme(ui)
    [] el = "menuThemeButton" -> toggleTheme(ui)
    [] el = "watchDemo"       -> [ui EXCEPT !.showVideo = TRUE]
    [] el = "videoBackdrop"   -> [ui EXCEPT !.showVideo = FALSE]
    [] el = "videoContent"    -> [ui EXCEPT !.stopped = TRUE]
    [] el = "videoClose"      -> [ui EXCEPT !.showVideo = FALSE]
    [] OTHER                  -> ui

\* The click bubbles from the target to the page, until a handler stops it.
RECURSIVE Bubble(_, _)
Bubble(el, ui) ==
  IF el = "document" \/ ui.stopped THEN ui
  ELSE Bubble(Parent(el), OnClick(el, ui))

\* handleClick that closes the menu on every click.
handleClick_always(menuOpen, target, pending) ==
  IF menuOpen THEN FALSE ELSE pending

\* handleClick of the document: the value of isMenuOpen after it, given the
\* isMenuOpen its closure holds and the value pending from the handlers.
handleClick(menuOpen, target, pending) ==
  IF menuOpen /\ ~Closest(target) THEN FALSE ELSE pending

\* ----------------------------------------------------------- the star fetch
\* What an awaited promise of fetchStars settles with.
Settle(kind, ok, data) == [kind |-> kind, ok |-> ok, data |-> data]
Body(label, isNull, field) == [label |-> label, isNull |-> isNull, field |-> field]
NoBody == Body("none", TRUE, JsUndefined)

\* The numbers a success response may carry as stargazers_count.
PayloadNumbers == {JsNum(-5, 1), JsNum(3, 2), JsNum(1250, 1)}

\* The JSON bodies of a success response: null, an object without the
\* field, with a string in it, with a number in it.
Payloads ==
  {Body("nullBody", TRUE, JsUndefined),
   Body("missingField", FALSE, JsUndefined),
   Body("stringField", FALSE, JsString)}
  \cup {Body("number", FALSE, n) : n \in PayloadNumbers}

FetchResult(pc, err, store, value, threw) ==
  [pc |-> pc, err |-> err, store |-> store, value |-> value, threw |-> threw]

\* fetchStars without the try/catch around its body.
fetchStars_nocatch(pc, s) ==
  IF s.kind = "reject"
    THEN FetchResult("done", "none", FALSE, JsNull, TRUE)
  ELSE IF pc = "awaitFetch"
    THEN IF ~s.ok
           THEN FetchResult("done", "GitHub API error", FALSE, JsNull, FALSE)
           ELSE FetchResult("awaitJson", "none", FALSE, JsNull, FALSE)
  ELSE IF s.data.isNull \/ s.data.field.type # "number"
    THEN FetchResult("done", "Invalid GitHub API response", FALSE, JsNull, FALSE)
    ELSE FetchResult("done", "none", TRUE, s.data.field, FALSE)

\* fetchStars resumed at an await with what the promise settled with: a
\* rejection goes to the catch block, a non-OK response and an invalid
\* body return early, a numeric field is stored.
fetchStars(pc, s) ==
  IF s.kind = "reject"
    THEN FetchResult("done", "Error fetching GitHub stars", FALSE, JsNull, FALSE)
  ELSE IF pc = "awaitFetch"
    THEN IF ~s.ok
           THEN FetchResult("done", "GitHub API error", FALSE, JsNull, FALSE)
           ELSE FetchResult("awaitJson", "none", FALSE, JsNull, FALSE)
  ELSE IF s.data.isNull \/ s.data.field.type # "number"
    THEN FetchResult("done", "Invalid GitHub API response", FALSE, JsNull, FALSE)
    ELSE FetchResult("done", "none", TRUE, s.data.field, FALSE)

\* The fetch effect without a dependency array: it runs after every render.
FetchEffectRuns_everyRender(mount) == TRUE

\* useEffect(..., []) of the fetch: it runs after the first commit only.
FetchEffectRuns(mount) == mount

\* The request counter and the position of fetchStars after a commit.
FetchAfterCommit(mount, pc) ==
  IF FetchEffectRuns(mount)
    THEN [pc |-> "awaitFetch", requests |-> Min(requests + 1, MaxRequests)]
    ELSE [pc |-> pc, requests |-> requests]

\* ------------------------------------------------------- the scroll tracker
\* checkScroll with the offset test scrollTop >= 5.
checkScroll_atOffset(top, sh, ch) ==
  (sh > ch + OverflowThreshold) /\ (top >= OffsetThreshold)

\* checkScroll: the value it passes to setIsScrolled.
checkScroll(top, sh, ch) ==
  LET hasScrollableContent == sh > ch + OverflowThreshold
      hasScrolled          == top > OffsetThreshold
  IN  hasScrollableContent /\ hasScrolled

Timer(owner, due, cur) == [owner |-> owner, due |-> due, cur |-> cur]

\* clearTimeout(timeoutId) of a wrapper: cur marks the timer its timeoutId names.
ClearTimeout(ts, o) == {t \in ts : ~(t.owner = o /\ t.cur)}

\* timeoutId = setTimeout(..., ms) of a wrapper.
SetTimeout(ts, o, ms) ==
  {[t EXCEPT !.cur = IF t.owner = o THEN FALSE ELSE t.cur] : t \in ts}
    \cup {Timer(o, ms, TRUE)}

\* The wrapper without clearTimeout.
debounce_noClear(ts, o, ms) == SetTimeout(ts, o, ms)

\* A call of the function debounce returns: cancel, then start.
debounce(ts, o, ms) == SetTimeout(ClearTimeout(ts, o), o, ms)

\* The viewport heights: content overflowing by 11, by 10, and not at all.
ClientHeights == {ContentHeight - OverflowThreshold - 1,
                  ContentHeight - OverflowThreshold,
                  ContentHeight + OffsetThreshold}
ScrollTops == {0, OffsetThreshold, OffsetThreshold + 1}
PageHeight(ch) == Max(ContentHeight, ch)
MaxScrollTop(ch) == PageHeight(ch) - ch

Listening == lifecycle = "mounted"

\* ------------------------------------------------------------------- Init
\* The state after the first render of Root: the useState initial values,
\* no effect run yet.  The stored theme, the marker class the root already
\* carries and the scroll position of the page are the environment's.
InitPage(themes, classes, heights, tops) ==
  /\ lifecycle = "rendered"
  /\ theme \in themes
  /\ isDarkMode = InitialIsDarkMode(theme)
  /\ darkClass \in classes
  /\ rootBg = ""
  /\ bodyBg = ""
  /\ isMenuOpen = FALSE
  /\ showVideo = FALSE
  /\ lumeStars = JsNull
  /\ isScrolled = FALSE
  /\ isInitialized = FALSE
  /\ fetchPc = "idle"
  /\ consoleErr = "none"
  /\ requests = 0
  /\ unhandled = FALSE
  /\ clientHeight \in heights
  /\ scrollHeight = PageHeight(clientHeight)
  /\ scrollTop \in {t \in tops : t <= MaxScrollTop(clientHeight)}
  /\ timers = {}
  /\ now = 0
  /\ sinceLast = [o \in Sources |-> Delay(o)]
  /\ owed = [o \in Sources |-> FALSE]
  /\ burst = [o \in Sources |-> 0]
  /\ lastEvent = Ev("render", "none", FALSE, FALSE, FALSE)
  /\ toggleTrail = <<>>

Init ==
  /\ InitPage(StoredThemes, BOOLEAN, ClientHeights, ScrollTops)
  /\ fmtIn = JsNull
  /\ fmtOut = <<>>

\* ------------------------------------------------------------------ actions
\* The first commit: the four effects run in order.
Mount ==
  /\ lifecycle = "rendered"
  /\ lifecycle' = "mounted"
  /\ LET eff == ThemeEffect(isDarkMode)
         f   == FetchAfterCommit(TRUE, fetchPc)
     IN  /\ darkClass' = eff.darkClass
         /\ rootBg' = eff.rootBg
         /\ bodyBg' = eff.bodyBg
         /\ fetchPc' = f.pc
         /\ requests' = f.requests
  /\ timers' = SetTimeout(timers, "init", InitDelay)
  /\ now' = 0
  /\ lastEvent' = Step("mount")
  /\ UNCHANGED <<theme, isDarkMode, toggleTrail, uiVars, lumeStars, consoleErr,
                 unhandled, pageVars, isScrolled, isInitialized, sinceLast,
                 owed, burst, fmtVars>>

\* A click on a rendered element: the onClick handlers along the bubbling
\* path, then handleClick of the document when the click gets there, then
\* the commit with the theme effect.  A click stopped by stopPropagation
\* reaches the document listener or not, as the event delegation of the
\* React build decides.
Click(target, delivered) ==
  /\ lifecycle = "mounted"
  /\ Rendered(target, isMenuOpen, showVideo)
  /\ LET ui0 == [isMenuOpen |-> isMenuOpen, renderedMenuOpen |-> isMenuOpen,
                 showVideo |-> showVideo, isDarkMode |-> isDarkMode,
                 theme |-> theme, darkClass |-> darkClass, stopped |-> FALSE]
         ui1 == Bubble(target, ui0)
         eff == ThemeEffect(ui1.isDarkMode)
         toggled == ui1.isDarkMode # isDarkMode
         f   == FetchAfterCommit(FALSE, fetchPc)
     IN  /\ ~delivered => ui1.stopped
         /\ isMenuOpen' = IF delivered
                            THEN handleClick(isMenuOpen, target, ui1.isMenuOpen)
                            ELSE ui1.isMenuOpen
         /\ showVideo' = ui1.showVideo
         /\ isDarkMode' = ui1.isDarkMode
         /\ theme' = ui1.theme
         /\ darkClass' = IF toggled THEN eff.darkClass ELSE ui1.darkClass
         /\ rootBg' = IF toggled THEN eff.rootBg ELSE rootBg
         /\ bodyBg' = IF toggled THEN eff.bodyBg ELSE bodyBg
         /\ toggleTrail' =
              IF ~toggled THEN toggleTrail
              ELSE LET was == [isDarkMode |-> isDarkMode, theme |-> theme]
                   IN  IF Len(toggleTrail) = 2
                         THEN <<toggleTrail[2], was>>
                         ELSE Append(toggleTrail, was)
         /\ fetchPc' = f.pc
         /\ requests' = f.requests
  /\ lastEvent' = Ev("click", target, delivered, isMenuOpen, showVideo)
  /\ UNCHANGED <<lifecycle, lumeStars, consoleErr, unhandled, pageVars,
                 scrollVars, fmtVars>>

\* A promise awaited by fetchStars settles and fetchStars runs to its next
\* await or to its end.  setLumeStars of an unmounted component is dropped.
FetchSettles(s) ==
  /\ \/ fetchPc = "awaitFetch" /\ s.kind \in {"reject", "response"}
     \/ fetchPc = "awaitJson" /\ s.kind \in {"reject", "json"}
  /\ LET r == fetchStars(fetchPc, s)
         stored == r.store /\ lifecycle = "mounted"
         f == IF stored THEN FetchAfterCommit(FALSE, r.pc)
                        ELSE [pc |-> r.pc, requests |-> requests]
     IN  /\ fetchPc' = f.pc
         /\ requests' = f.requests
         /\ consoleErr' = IF r.err # "none" THEN r.err ELSE consoleErr
         /\ lumeStars' = IF stored THEN r.value ELSE lumeStars
         /\ unhandled' = (unhandled \/ r.threw)
  /\ lastEvent' = Ev("settle",
                     CASE s.kind = "reject" /\ fetchPc = "awaitFetch" -> "networkError"
                       [] s.kind = "reject" /\ fetchPc = "awaitJson"  -> "parseError"
                       [] s.kind = "response" -> IF s.ok THEN "ok" ELSE "httpError"
                       [] OTHER -> s.data.label,
                     FALSE, isMenuOpen, showVideo)
  /\ UNCHANGED <<lifecycle, themeVars, uiVars, pageVars, scrollVars, fmtVars>>

\* The length of a wrapper's burst with one more event: the burst goes on
\* while the wrapper's call is owed, and starts anew otherwise.
Grown(o) == IF owed[o] THEN Min(burst[o] + 1, MaxBurst) ELSE 1

\* Only the scroll listener is attached.
Notify_scrollOnly(ts, o) ==
  IF Listening /\ o = "scroll" THEN debounce(ts, o, Delay(o)) ELSE ts

\* An event reaches a debounced wrapper.
Notify(ts, o) == IF Listening THEN debounce(ts, o, Delay(o)) ELSE ts

\* The page is scrolled to another offset; the scroll listener, while
\* attached, runs debouncedScroll.
ScrollEvent(top) ==
  /\ lifecycle # "rendered"
  /\ top # scrollTop
  /\ top <= MaxScrollTop(clientHeight)
  /\ scrollTop' = top
  /\ timers' = Notify(timers, "scroll")
  /\ sinceLast' = IF Listening THEN [sinceLast EXCEPT !["scroll"] = 0] ELSE sinceLast
  /\ owed' = IF Listening THEN [owed EXCEPT !["scroll"] = TRUE] ELSE owed
  /\ burst' = IF Listening THEN [burst EXCEPT !["scroll"] = Grown("scroll")] ELSE burst
  /\ lastEvent' = Step("scroll")
  /\ UNCHANGED <<lifecycle, themeVars, uiVars, fetchVars, scrollHeight,
                 clientHeight, isScrolled, isInitialized, now, fmtVars>>

\* The window is resized; the resize listener, while attached, runs
\* debouncedResize.  A scroll offset beyond the new range is clamped, which
\* is a scroll event too.
ResizeEvent(ch) ==
  /\ lifecycle # "rendered"
  /\ LET top == Min(scrollTop, MaxScrollTop(ch))
         ts  == Notify(timers, "resize")
         hit == IF top # scrollTop /\ Listening THEN Sources ELSE
                IF Listening THEN {"resize"} ELSE {}
     IN  /\ clientHeight' = ch
         /\ scrollHeight' = PageHeight(ch)
         /\ scrollTop' = top
         /\ timers' = IF top # scrollTop THEN Notify(ts, "scroll") ELSE ts
         /\ sinceLast' = [o \in Sources |-> IF o \in hit THEN 0 ELSE sinceLast[o]]
         /\ owed' = [o \in Sources |-> IF o \in hit THEN TRUE ELSE owed[o]]
         /\ burst' = [o \in Sources |-> IF o \in hit THEN Grown(o) ELSE burst[o]]
  /\ lastEvent' = Step("resize")
  /\ UNCHANGED <<lifecycle, themeVars, uiVars, fetchVars, isScrolled,
                 isInitialized, now, fmtVars>>

\* Time passes, up to the next timer's due time.
Tick ==
  /\ lifecycle # "rendered"
  /\ \A t \in timers : t.due > 0
  /\ LET dues == {t.due : t \in timers} \cup {TimeStep}
         d    == CHOOSE x \in dues : \A y \in dues : x <= y
     IN  /\ timers' = {[t EXCEPT !.due = t.due - d] : t \in timers}
         /\ now' = Min(now + d, InitDelay)
         /\ sinceLast' = [o \in Sources |-> Min(sinceLast[o] + d, Delay(o))]
  /\ lastEvent' = Step("tick")
  /\ UNCHANGED <<lifecycle, themeVars, uiVars, fetchVars, pageVars,
                 isScrolled, isInitialized, owed, burst, fmtVars>>

\* A due timer's callback runs: the initialisation callback, or checkScroll
\* of a wrapper.  A state update of an unmounted component is dropped.
TimerFires(t) ==
  /\ t \in timers
  /\ t.due = 0
  /\ timers' = timers \ {t}
  /\ LET mounted == lifecycle = "mounted"
         f == IF mounted THEN FetchAfterCommit(FALSE, fetchPc)
                         ELSE [pc |-> fetchPc, requests |-> requests]
     IN  /\ isInitialized' = IF t.owner = "init" /\ mounted THEN TRUE ELSE isInitialized
         /\ isScrolled' = IF mounted
                            THEN checkScroll(scrollTop, scrollHeight, clientHeight)
                            ELSE isScrolled
         /\ fetchPc' = f.pc
         /\ requests' = f.requests
  /\ owed' = [o \in Sources |-> IF o = t.owner THEN FALSE ELSE owed[o]]
  /\ lastEvent' = Ev("timer", t.owner, FALSE, isMenuOpen, showVideo)
  /\ UNCHANGED <<lifecycle, themeVars, uiVars, lumeStars, consoleErr, unhandled,
                 pageVars, now, sinceLast, burst, fmtVars>>

\* The cleanups of the effects: clearTimeout(initTimeout) and the removal
\* of the scroll, resize and click listeners.
Unmount ==
  /\ lifecycle = "mounted"
  /\ lifecycle' = "unmounted"
  /\ timers' = {t \in timers : t.owner # "init"}
  /\ lastEvent' = Step("unmount")
  /\ UNCHANGED <<themeVars, uiVars, fetchVars, pageVars, isScrolled,
                 isInitialized, now, sinceLast, owed, burst, fmtVars>>

Settlements ==
  {Settle("reject", FALSE, NoBody)}
    \cup {Settle("response", ok, NoBody) : ok \in BOOLEAN}
    \cup {Settle("json", TRUE, b) : b \in Payloads}

NextPage ==
  \/ Mount
  \/ \E target \in Elements, delivered \in BOOLEAN : Click(target, delivered)
  \/ \E s \in Settlements : FetchSettles(s)
  \/ Unmount

NextScroll ==
  \/ Mount
  \/ \E top \in ScrollTops : ScrollEvent(top)
  \/ \E ch \in ClientHeights : ResizeEvent(ch)
  \/ Tick
  \/ \E t \in timers : TimerFires(t)
  \/ Unmount

Next == NextPage \/ NextScroll

\* The whole page: every action from every first render.  SpecPage and
\* SpecScroll below take the same actions in two groups, the clicks with
\* the fetch and the scroll tracker with its timers, which share no state
\* but the lifecycle.
Spec == Init /\ [][Next]_vars

\* The theme, the menu, the video overlay and the star fetch, on a page
\* that is neither scrolled nor resized.
InitUI ==
  /\ InitPage(StoredThemes, BOOLEAN, {ContentHeight - OverflowThreshold - 1}, {0})
  /\ fmtIn = JsNull
  /\ fmtOut = <<>>

SpecPage == InitUI /\ [][NextPage]_vars

\* The scroll tracker and its timers, on a page that is not clicked.
InitScroll ==
  /\ InitPage({Absent}, {FALSE}, ClientHeights, ScrollTops)
  /\ fmtIn = JsNull
  /\ fmtOut = <<>>

SpecScroll == InitScroll /\ [][NextScroll]_vars

\* The same, with the browser's scheduling: the effects of a render are
\* committed, time passes, and the callback of a due timer runs.
SpecScrollFair ==
  /\ InitScroll
  /\ [][NextScroll]_vars
  /\ WF_vars(Mount)
  /\ WF_vars(Tick)
  /\ WF_vars(\E t \in timers : TimerFires(t))

\* formatStarCount applied to null and to every count up to MaxCount.
InitFormat ==
  /\ InitPage({Absent}, {FALSE}, {ContentHeight - OverflowThreshold - 1}, {0})
  /\ fmtIn \in {JsNull} \cup {JsNum(c, 1) : c \in 0..MaxCount}
  /\ fmtOut = <<>>

Format ==
  /\ fmtOut = <<>>
  /\ fmtOut' = formatStarCount(fmtIn)
  /\ UNCHANGED <<lifecycle, themeVars, uiVars, fetchVars, pageVars, scrollVars,
                 lastEvent, fmtIn>>

NextFormat == Format

SpecFormat == InitFormat /\ [][NextFormat]_vars

\* ------------------------------------------------------- reading a string
IsDigit(ch) == \E i \in 1..10 : DigitChars[i] = ch
DigitValue(ch) == CHOOSE d \in 0..9 : DigitChars[d + 1] = ch

\* The value of a string of decimal digits.
RECURSIVE DecimalValue(_)
DecimalValue(s) ==
  IF s = <<>> THEN 0
  ELSE 10 * DecimalValue(SubSeq(s, 1, Len(s) - 1)) + DigitValue(s[Len(s)])

\* A decimal numeral: digits only, no leading zero but for "0" itself.
IsNumeral(s) ==
  /\ Len(s) >= 1
  /\ \A i \in 1..Len(s) : IsDigit(s[i])
  /\ (s[1] = "0" => Len(s) = 1)

\* C1: for a count c >= 1000, with h = round(c / 100), halves up, the
\* result reads (h div 10), then "." and (h mod 10) unless h mod 10 = 0,
\* then "k"; format(1000) = "1k", format(1250) = "1.3k" and
\* format(15800) = "15.8k".
C1_KiloFormat ==
  (fmtOut # <<>> /\ fmtIn.type = "number" /\ fmtIn.num >= 1000) =>
    LET c    == fmtIn.num
        h    == (c + 50) \div 100
        n    == Len(fmtOut)
        body == SubSeq(fmtOut, 1, n - 1)
        m    == Len(body)
    IN  /\ n >= 2
        /\ fmtOut[n] = "k"
        /\ IF h % 10 = 0
             THEN IsNumeral(body) /\ DecimalValue(body) = h \div 10
             ELSE /\ m >= 3
                  /\ body[m - 1] = "."
                  /\ IsDigit(body[m])
                  /\ DigitValue(body[m]) = h % 10
                  /\ IsNumeral(SubSeq(body, 1, m - 2))
                  /\ DecimalValue(SubSeq(body, 1, m - 2)) = h \div 10
        /\ (c = 1000 => fmtOut = <<"1", "k">>)
        /\ (c = 1250 => fmtOut = <<"1", ".", "3", "k">>)
        /\ (c = 15800 => fmtOut = <<"1", "5", ".", "8", "k">>)

\* 1250 has been formatted, a half rounded up to 1.3k.
C1_Witness == fmtIn = JsNum(1250, 1) /\ fmtOut = <<"1", ".", "3", "k">>

\* C2: for a count c < 1000 the result is the decimal numeral of c, with
\* no rounding and no "k".
C2_LiteralDigits ==
  (fmtOut # <<>> /\ fmtIn.type = "number" /\ fmtIn.num < 1000) =>
    /\ IsNumeral(fmtOut)
    /\ DecimalValue(fmtOut) = fmtIn.num

\* 999 has been formatted.
C2_Witness == fmtIn = JsNum(999, 1) /\ fmtOut = <<"9", "9", "9">>

\* ------------------------------------------------------------- the theme
\* C3 as stated: two calls of toggleTheme restore the preference and the
\* stored value they started from, whatever the stored value was.
C3_Original ==
  Len(toggleTrail) = 2 =>
    /\ isDarkMode = toggleTrail[1].isDarkMode
    /\ theme = toggleTrail[1].theme

\* C3 amended: two calls of toggleTheme restore the preference; they
\* restore the stored value when it was "dark" or "light", and leave
\* "light" stored when the key was absent or held anything else.
C3_DoubleToggle ==
  Len(toggleTrail) = 2 =>
    /\ isDarkMode = toggleTrail[1].isDarkMode
    /\ theme = IF toggleTrail[1].theme \in {"dark", "light"}
                 THEN toggleTrail[1].theme
                 ELSE "light"

\* toggleTheme has run twice from a stored "dark".
C3_Witness ==
  /\ Len(toggleTrail) = 2
  /\ toggleTrail[1] = [isDarkMode |-> TRUE, theme |-> "dark"]
  /\ toggleTrail[2] = [isDarkMode |-> FALSE, theme |-> "light"]
  /\ isDarkMode
  /\ theme = "dark"

\* -------------------------------------------------------------- the menu
\* The elements inside an element marked data-menu-container.
InsideMenu == {"menuButton", "menuPanel", "menuThemeButton"}

Shown == isScrolled /\ isInitialized
ThresholdsExceeded ==
  scrollHeight > clientHeight + 10 /\ scrollTop > 5
DebouncePending == \E t \in timers : t.owner \in Sources

\* C5 as stated: in every state of the mounted page the call to action is
\* shown only if the initialisation delay has elapsed and both thresholds
\* are exceeded.
C5_Original ==
  (lifecycle = "mounted" /\ Shown) => (now >= 100 /\ ThresholdsExceeded)

\* C5 amended: the call to action is shown only if the initialisation
\* delay has elapsed, and, when no debounced check is pending, only if both
\* thresholds are exceeded.
C5_ShownOnlyIf ==
  (lifecycle = "mounted" /\ Shown) =>
    /\ now >= 100
    /\ ~DebouncePending => ThresholdsExceeded

\* The call to action is shown on a scrolled page with no check pending.
C5_Witness ==
  /\ lifecycle = "mounted"
  /\ Shown
  /\ timers = {}
  /\ scrollTop = 6
  /\ lastEvent.kind = "timer"

\* --------------------------------------------------------- the debounce
PendingOf(ts, o) == {t \in ts : t.owner = o}

\* C7: a wrapper holds at most one pending timer, and exactly one while
\* its call is owed; an event leaves the wrapper with one timer, set to
\* the full delay; the wrapper calls checkScroll only when its call is owed
\* and the delay has passed since its last event, and the call leaves no
\* timer of the wrapper pending and nothing owed: one call for a burst.
C7_Debounce ==
  /\ [](\A o \in Sources :
          /\ Cardinality(PendingOf(timers, o)) <= 1
          /\ owed[o] <=> PendingOf(timers, o) # {}
          /\ owed[o] => burst[o] >= 1)
  /\ [][/\ (lastEvent'.kind = "scroll" /\ Listening)
             => PendingOf(timers', "scroll") = {Timer("scroll", 50, TRUE)}
        /\ (lastEvent'.kind = "resize" /\ Listening)
             => PendingOf(timers', "resize") = {Timer("resize", 100, TRUE)}
        /\ \A o \in Sources :
             (lastEvent'.kind = "timer" /\ lastEvent'.target = o) =>
               /\ owed[o]
               /\ sinceLast[o] = (IF o = "scroll" THEN 50 ELSE 100)
               /\ ~owed'[o]
               /\ PendingOf(timers', o) = {}
       ]_vars

\* The scroll wrapper has called checkScroll once, after a burst of three
\* or more scroll events.
C7_Witness ==
  /\ lastEvent.kind = "timer"
  /\ lastEvent.target = "scroll"
  /\ burst["scroll"] = 3
  /\ ~owed["scroll"]
  /\ PendingOf(timers, "scroll") = {}

\* ------------------------------------------------------------- the fetch
FailureKinds == {"networkError", "httpError", "parseError",
                 "nullBody", "missingField", "stringField"}

\* C6: after a failure outcome fetchStars has ended, no exception has
\* escaped, the star count is null and formats as "0"; and the step of a
\* failure outcome changes nothing else of the page.
C6_FailureSilent ==
  /\ [](~unhandled)
  /\ []((lastEvent.kind = "settle" /\ lastEvent.target \in FailureKinds) =>
          /\ fetchPc = "done"
          /\ lumeStars = JsNull
          /\ formatStarCount(lumeStars) = <<"0">>
          /\ consoleErr # "none")
  /\ [][(lastEvent'.kind = "settle" /\ lastEvent'.target \in FailureKinds) =>
          UNCHANGED <<lifecycle, theme, isDarkMode, darkClass, rootBg, bodyBg,
                      isMenuOpen, showVideo, lumeStars, requests, pageVars,
                      isScrolled, isInitialized, timers>>]_vars

\* The body of a success response failed to parse.
C6_Witness ==
  /\ lastEvent.kind = "settle"
  /\ lastEvent.target = "parseError"
  /\ fetchPc = "done"
  /\ lumeStars = JsNull

\* C8: the stored star count is null or a non-negative integer.
C8_NonNegativeInteger ==
  \/ lumeStars.type = "null"
  \/ lumeStars.type = "number" /\ lumeStars.den = 1 /\ lumeStars.num >= 0

\* C9: one request is issued, at mount; once fetchStars has ended no
\* request follows, and the star count, once set, does not change.
C9_OneShot ==
  /\ [](requests <= 1)
  /\ [](lifecycle # "rendered" => requests = 1)
  /\ [][/\ requests' # requests => lastEvent'.kind = "mount"
        /\ fetchPc = "done" => (fetchPc' = "done" /\ requests' = requests)
        /\ lumeStars # JsNull => lumeStars' = lumeStars
       ]_vars

\* A click re-rendered the page after the star count was stored.
C9_Witness ==
  /\ lastEvent.kind = "click"
  /\ fetchPc = "done"
  /\ lumeStars = JsNum(1250, 1)
  /\ requests = 1

\* ------------------------------------------------------------- the video
\* C10: a click on the backdrop or on the close button hides the overlay,
\* a click on the inner content area leaves it visible, and the overlay
\* becomes visible by a click on the Watch Demo button only.
C10_Overlay ==
  [][/\ (lastEvent'.kind = "click" /\ lastEvent'.target \in {"videoBackdrop", "videoClose"})
          => (showVideo /\ ~showVideo')
     /\ (lastEvent'.kind = "click" /\ lastEvent'.target = "videoContent")
          => (showVideo /\ showVideo')
     /\ (~showVideo /\ showVideo')
          => (lastEvent'.kind = "click" /\ lastEvent'.target = "watchDemo")
    ]_vars

\* The inner content area of the visible overlay has been clicked.
C10_Witness ==
  /\ lastEvent.kind = "click"
  /\ lastEvent.target = "videoContent"
  /\ lastEvent.videoWasVisible
  /\ showVideo

\* ------------------------------------------------- the theme, continued
\* C11: the preference is one of the two values; until the first toggle it
\* is dark exactly when the stored value is the literal "dark"; a toggle
\* leaves the literal of the new preference stored; and the stored value
\* changes in a toggle only, never at the first render or at mount.
C11_ThemeResolves ==
  /\ [](isDarkMode \in BOOLEAN)
  /\ [](toggleTrail = <<>> => (isDarkMode <=> theme = "dark"))
  /\ [][/\ isDarkMode' # isDarkMode =>
             theme' = (IF isDarkMode' THEN "dark" ELSE "light")
        /\ theme' # theme => isDarkMode' # isDarkMode
        /\ lastEvent'.kind = "mount" => theme' = theme
       ]_vars

\* A stored value that is neither literal read as light, and the first
\* toggle has stored "dark".
C11_Witness ==
  /\ Len(toggleTrail) = 1
  /\ toggleTrail[1] = [isDarkMode |-> FALSE, theme |-> "system"]
  /\ isDarkMode
  /\ theme = "dark"

\* C12: once the page is mounted, in every state a handler and the theme
\* effect have left, the root carries the marker class exactly when the
\* preference is dark, and the root and the body have the dark colour
\* exactly when it is dark.
C12_MarkerMatches ==
  lifecycle # "rendered" =>
    /\ darkClass <=> isDarkMode
    /\ rootBg = (IF isDarkMode THEN "#171717" ELSE "white")
    /\ bodyBg = (IF isDarkMode THEN "#171717" ELSE "white")

\* The preference has been toggled back to light from a stored "dark".
C12_Witness ==
  /\ lastEvent.kind = "click"
  /\ lastEvent.target \in {"themeSwitch", "menuThemeButton"}
  /\ Len(toggleTrail) = 1
  /\ toggleTrail[1].isDarkMode
  /\ ~isDarkMode
  /\ ~darkClass
  /\ rootBg = "white"

\* ------------------------------------------------------ the user actions
ClickOn(targets) == lastEvent'.kind = "click" /\ lastEvent'.target \in targets
ThemeButtons == {"themeSwitch", "menuThemeButton"}
VideoButtons == {"watchDemo", "videoBackdrop", "videoClose"}

C14_NoCallAfterUnmount ==
  lifecycle = "unmounted" => lastEvent.kind # "timer"

\* ------------------------------------------------- the flag settles
EventsStopped == lastEvent.kind \notin {"scroll", "resize"}
Settled == isInitialized /\ (isScrolled <=> ThresholdsExceeded)

\* C15: if the component stays mounted and scroll and resize events stop
\* after some point, then from some point on isInitialized is true and
\* isScrolled equals the two thresholds evaluated on the final scroll offset
\* and dimensions.
C15_EventuallyAgrees ==
  (<>[]EventsStopped /\ [](lifecycle # "unmounted")) => <>[]Settled

\* A burst of events began before the initialisation timer fired, and the
\* last callback has run: the flag is set on a page scrolled past both
\* thresholds.
C15_Witness ==
  /\ lifecycle = "mounted"
  /\ lastEvent.kind = "timer"
  /\ lastEvent.target = "init"
  /\ burst["scroll"] >= 2
  /\ \A o \in Sources : ~owed[o]
  /\ timers = {}
  /\ isInitialized
  /\ isScrolled
  /\ ThresholdsExceeded

====
